---- MODULE Spec2Model ----
(***************************************************************************)
(* Model of sphinxcontrib/googledrive.py: the URL classifier               *)
(* (url_to_file_id), the MIME type resolution (Image.guess_mimetype) and   *)
(* the cache-and-fetch procedure (GoogleDriveImageConverter.handle) run    *)
(* over the image nodes of a document, build after build, against a remote *)
(* Drive whose files change over time.                                     *)
(*                                                                         *)
(* Strings are sequences of one-character strings.  Time is counted in     *)
(* ticks of 1/TicksPerSecond seconds, so that a file's st_mtime can fall   *)
(* between two whole seconds.                                              *)
(***************************************************************************)
EXTENDS Integers, Sequences, FiniteSets, TLC

\* ---- bounds of the model ----
MaxClock == 3
MaxBuilds == 2
TicksPerSecond == 2
MaxTail == 3
UtcOffset == 0

VARIABLES
    environ,                       \* ENVIRONMENT_NAME in os.environ
    googledrive_service_account,   \* config value is set
    googledrive_trim_images,       \* config value
    supported_image_types,         \* app.builder.supported_image_types
    clock,                         \* current time, in ticks
    remote,                        \* file id -> metadata held by Google Drive
    fs,                            \* path -> file, for the files that exist
    dirs,                          \* directories that exist
    document,                      \* the image nodes as read from the source
    nodes,                         \* the image nodes of the document
    idx,                           \* next node the transform visits
    builds,                        \* number of builds started
    original_image_uri,            \* env.original_image_uri
    images,                        \* env.images
    log,                           \* per node: what handle did in this build
    raised,                        \* exception that left handle, or "none"
    last,                          \* the call of handle that has just returned
    writers,                       \* path -> file ids whose handle opened it
    url, file_id,                  \* url_to_file_id: argument and result
    mimeType, types, guessed       \* guess_mimetype: arguments and result

vars == << environ, googledrive_service_account, googledrive_trim_images,
           supported_image_types, clock, remote, fs, dirs, document, nodes, idx,
           builds, original_image_uri, images, log, raised, last,
           writers, url, file_id, mimeType, types, guessed >>

mainVars == << environ, googledrive_service_account, googledrive_trim_images,
               supported_image_types, clock, remote, fs, dirs, document, nodes, idx,
               builds, original_image_uri, images, log, raised, last,
               writers >>

urlVars == << url, file_id >>

mimeVars == << mimeType, types, guessed >>

\* Python's None where a string, a path or bytes are expected, and where a
\* MIME type is expected.
None == << "None" >>

NoMime == "None"

\* ------------------------------------------------------------------------
\* URL classifier
\* ------------------------------------------------------------------------

\* A regular expression element: a literal character, or '.', which matches
\* any character but a newline.
Lit(s) == [i \in DOMAIN s |-> << "lit", s[i] >>]

Dot == << << "dot" >> >>

\* 'https://drive.google.com/open\\?id=' : the part before the group.
drive_url_re ==
    Lit(<< "h","t","t","p","s",":","/","/","d","r","i","v","e" >>) \o Dot
    \o Lit(<< "g","o","o","g","l","e" >>) \o Dot
    \o Lit(<< "c","o","m","/","o","p","e","n","?","i","d","=" >>)

\* 'https://docs.google.com/drawings/d/' : the part before the group.
drawings_url_re ==
    Lit(<< "h","t","t","p","s",":","/","/","d","o","c","s" >>) \o Dot
    \o Lit(<< "g","o","o","g","l","e" >>) \o Dot
    \o Lit(<< "c","o","m","/","d","r","a","w","i","n","g","s","/","d","/" >>)

ElemMatches(e, c) ==
    IF e[1] = "dot" THEN c # "\n" ELSE c = e[2]

\* The elements of pat match the first Len(pat) characters of s.
PrefixMatches(pat, s) ==
    /\ Len(s) >= Len(pat)
    /\ \A i \in 1..Len(pat) : ElemMatches(pat[i], s[i])

\* Length of the longest run of characters other than '/' and '?' that
\* starts at position from of s: what the greedy group ([^/?]+) takes.
RECURSIVE RunLength(_, _)
RunLength(s, from) ==
    IF from > Len(s) \/ s[from] \in {"/", "?"}
    THEN 0
    ELSE 1 + RunLength(s, from + 1)

\* group(1) of a match whose literal part took n characters and whose group
\* can take k: the group needs one character at least.
Group(s, n, k) == IF k >= 1 THEN SubSeq(s, n + 1, n + k) ELSE None

\* pattern.match(s) followed by group(1), None when there is no match: the
\* match is anchored at the start of s only, and what follows the group in
\* the pattern is optional.
ReMatch(pat, s) ==
    IF PrefixMatches(pat, s)
    THEN Group(s, Len(pat), RunLength(s, Len(pat) + 1))
    ELSE None

\* The first of two matches that succeeded.
FirstMatch(m1, m2) == IF m1 # None THEN m1 ELSE m2

url_to_file_id(u) ==
    FirstMatch(ReMatch(drive_url_re, u), ReMatch(drawings_url_re, u))

\* ------------------------------------------------------------------------
\* MIME type resolution
\* ------------------------------------------------------------------------

Drawing == "application/vnd.google-apps.drawing"

EXPORTABLE_IMAGES == {Drawing}

UnsupportedMimeType == "UnsupportedMimeType"

\* guess_mimetype preferring PNG to PDF for a drawing.
guess_mimetype_png_first(mt, supported) ==
    IF mt \in EXPORTABLE_IMAGES
    THEN IF "image/png" \in supported
         THEN "image/png"
         ELSE "application/pdf"
    ELSE IF mt \in supported
         THEN mt
         ELSE UnsupportedMimeType

guess_mimetype(mt, supported) ==
    IF mt \in EXPORTABLE_IMAGES
    THEN IF "application/pdf" \in supported
         THEN "application/pdf"
         ELSE "image/png"
    ELSE IF mt \in supported
         THEN mt
         ELSE UnsupportedMimeType

exportable(mt) == mt \in EXPORTABLE_IMAGES

\* sphinx.util.images.get_image_extension: the first suffix of the table
\* for the MIME type, None when there is none.
extension(mt) ==
    CASE mt = "image/gif" -> << ".", "g", "i", "f" >>
      [] mt = "image/jpeg" -> << ".", "j", "p", "g" >>
      [] mt = "image/png" -> << ".", "p", "n", "g" >>
      [] mt = "application/pdf" -> << ".", "p", "d", "f" >>
      [] mt = "image/svg+xml" -> << ".", "s", "v", "g" >>
      [] OTHER -> None

\* ------------------------------------------------------------------------
\* The document, the remote files and the cache
\* ------------------------------------------------------------------------

FileA == << "a" >>

FileB == << "a", ".", "j", "p", "g" >>

FileC == << "a", ".", "p", "n", "g" >>

DriveUrl(fid) ==
    << "h","t","t","p","s",":","/","/","d","r","i","v","e",".",
       "g","o","o","g","l","e",".","c","o","m","/","o","p","e","n","?",
       "i","d","=" >> \o fid

DrawingsUrl(fid) ==
    << "h","t","t","p","s",":","/","/","d","o","c","s",".",
       "g","o","o","g","l","e",".","c","o","m","/","d","r","a","w","i","n",
       "g","s","/","d","/" >> \o fid \o << "/", "e", "d", "i", "t" >>

OtherUrl == << "h","t","t","p","s",":","/","/","x","/","a",".","p","n","g" >>

\* An image node as the image collector leaves it: a remote uri is its own
\* only candidate, under the key '?'.
ImageNode(u) == [uri |-> u, candidates |-> {<< "?", u >>}]

\* The sharing URL of a remote file: a drawing has a drawings URL.
Url(fid, mt) == IF mt = Drawing THEN DrawingsUrl(fid) ELSE DriveUrl(fid)

imagedir == << "i","m","a","g","e","d","i","r" >>

\* os.path.join of two components.
join(a, b) ==
    IF b # << >> /\ b[1] = "/" THEN b ELSE a \o << "/" >> \o b

cachedir == join(imagedir, << "g","o","o","g","l","e","d","r","i","v","e" >>)

\* path naming the file after the file id up to its first '.'.
path_stem(fid, ext) ==
    LET dots == {i \in DOMAIN fid : fid[i] = "."}
    IN  join(cachedir,
             SubSeq(fid, 1, IF dots = {} THEN Len(fid)
                            ELSE (CHOOSE i \in dots : \A j \in dots : i <= j) - 1)
             \o ext)

path(fid, ext) == join(cachedir, fid \o ext)

NoFile == [content |-> None, st_mtime |-> -1]

Empty == << >>

exists(p) == p \in DOMAIN fs

\* math.ceil of a time given in ticks, in whole seconds.
ceil(t) == (t + TicksPerSecond - 1) \div TicksPerSecond

\* dateutil.parser.parse(modifiedTime), timetuple() and mktime(): the
\* fraction of the second is dropped, and the UTC calendar fields are read
\* as local time, on a host UtcOffset seconds east of UTC.
last_modified(modifiedTime) == (modifiedTime \div TicksPerSecond) - UtcOffset

\* ------------------------------------------------------------------------
\* GoogleDriveImageConverter
\* ------------------------------------------------------------------------

match(node) == url_to_file_id(node.uri) # None

connect_to_GoogleDrive ==
    IF environ
    THEN "from_service_account_info"
    ELSE IF googledrive_service_account
         THEN "from_service_account_file"
         ELSE "ExtensionError"

NoImage(e) ==
    [exc |-> e, exportable |-> FALSE, mimetype |-> NoMime, url |-> None,
     last_modified |-> 0, modifiedTime |-> 0]

\* The Image built from the metadata info, mt being its resolved MIME type.
NewImage(info, mt) ==
    IF mt = UnsupportedMimeType
    THEN NoImage("UnsupportedMimeType")
    ELSE [exc |-> "none",
          exportable |-> exportable(info.mimeType),
          mimetype |-> mt,
          url |-> info.webContentLink,
          last_modified |-> last_modified(info.modifiedTime),
          modifiedTime |-> info.modifiedTime]

\* Image.__init__ without the test of 'trashed'.
Image_ignores_trashed(fid, meta) ==
    IF meta # "ok"
    THEN NoImage(meta)
    ELSE NewImage(remote[fid],
                  guess_mimetype(remote[fid].mimeType, supported_image_types))

\* Image.__init__; meta is what drive.get_image_info does: "ok", or the
\* exception it raises.
Image(fid, meta) ==
    IF meta # "ok"
    THEN NoImage(meta)
    ELSE IF remote[fid].trashed
         THEN NoImage("IOError")
         ELSE NewImage(remote[fid],
                       guess_mimetype(remote[fid].mimeType,
                                      supported_image_types))

\* Image.read; fetch is what the remote call does: "ok", "HttpError404" or
\* "error".  The export call raises HttpError; requests.get raises only
\* when the connection fails (the body of an answer with an error status
\* is content like any other).
read(fid, image, fetch) ==
    IF image.exportable
    THEN CASE fetch = "ok" ->
                [exc |-> "none",
                 content |-> << "export", fid, image.mimetype,
                                image.modifiedTime >>]
           [] fetch = "HttpError404" -> [exc |-> "HttpError404", content |-> None]
           [] OTHER -> [exc |-> "HttpError", content |-> None]
    ELSE CASE fetch = "ok" ->
                [exc |-> "none",
                 content |-> << "get", image.url, image.modifiedTime >>]
           [] OTHER -> [exc |-> "ConnectionError", content |-> None]

\* trim_image; trimr is what PIL finds in the content: "same" (no border),
\* "cropped", or "IOError" (not an image it can open).
trim_image(content, mimetype, trimr) ==
    IF mimetype \in {"image/png", "image/jpeg"}
    THEN CASE trimr = "same" -> [exc |-> "none", content |-> content]
           [] trimr = "cropped" ->
                [exc |-> "none", content |-> << "cropped", content >>]
           [] OTHER -> [exc |-> "IOError", content |-> None]
    ELSE [exc |-> "none", content |-> content]

Exceptions ==
    {"ExtensionError", "IOError", "ConnectionError", "UnsupportedMimeType",
     "HttpError404", "HttpError", "TypeError", "KeyError"}

IsIOError(e) == e \in {"IOError", "ConnectionError"}

IsException(e) == e \in Exceptions

\* The except clauses of handle without the last one's warning for an
\* exception that is not a 404.
except_clause_no_catch_all(e) ==
    IF IsIOError(e)
    THEN "not found"
    ELSE IF e = "UnsupportedMimeType"
         THEN "unsupported"
         ELSE IF e = "HttpError404" THEN "not found" ELSE "propagate"

\* The except clauses of handle: the warning logged for an exception raised
\* in the try block, "propagate" when no clause catches it.
except_clause(e) ==
    IF IsIOError(e)
    THEN "not found"
    ELSE IF e = "UnsupportedMimeType"
         THEN "unsupported"
         ELSE IF IsException(e)
              THEN IF e = "HttpError404" THEN "not found" ELSE "warning"
              ELSE "propagate"

\* The freshness test of handle: the file exists and its modification time,
\* rounded up, is not after the remote one.
is_fresh(p, lm) == exists(p) /\ ceil(fs[p].st_mtime) <= lm

\* node['candidates'].pop('?'), the new candidate and node['uri'].
rewritten(node, mimetype, p) ==
    [uri |-> p,
     candidates |-> {c \in node.candidates : c[1] # "?"} \cup {<< mimetype, p >>}]

\* What one call of handle did, for a call that ended at stage:
\*   exc       the exception raised in the try block, "none" if none
\*   fresh     the call returned at the freshness test
\*   existed   a file was at the path when the call tested it; pre: that file
\*   ensured   ensuredir was called
\*   recorded  env.original_image_uri[path] was set
\*   opened    the file was opened for writing (created or truncated)
\*   fetched   content-fetch calls made
\*   bytes     what Image.read returned
\*   written   what f.write wrote
\*   node      the node afterwards
Returned(node, fid, image, p, exc, stage, bytes, written) ==
    [exc |-> exc, fresh |-> stage = "fresh", fid |-> fid, path |-> p,
     mimetype |-> image.mimetype, lm |-> image.last_modified,
     existed |-> p # None /\ exists(p),
     pre |-> IF p # None /\ exists(p) THEN fs[p] ELSE NoFile,
     ensured |-> stage \in {"read", "trim", "pop", "done"},
     recorded |-> stage \in {"read", "trim", "pop", "done"},
     opened |-> stage \in {"read", "trim", "pop", "done"},
     fetched |-> IF stage \in {"read", "trim", "pop", "done"} THEN 1 ELSE 0,
     bytes |-> bytes, written |-> written, node |-> node]

\* handle from the end of the with block: the node is rewritten.
handle_node(node, fid, image, p, got, cut) ==
    IF cut.exc # "none"
    THEN Returned(node, fid, image, p, cut.exc, "trim", got.content, None)
    ELSE IF ~ \E c \in node.candidates : c[1] = "?"
         THEN Returned(node, fid, image, p, "KeyError", "pop",
                       got.content, cut.content)
         ELSE Returned(rewritten(node, image.mimetype, p), fid, image, p,
                       "none", "done", got.content, cut.content)

\* handle inside the with block, image.read() having returned got.
handle_write(node, fid, image, p, got, trimr) ==
    IF got.exc # "none"
    THEN Returned(node, fid, image, p, got.exc, "read", None, None)
    ELSE handle_node(node, fid, image, p, got,
                     IF googledrive_trim_images
                     THEN trim_image(got.content, image.mimetype, trimr)
                     ELSE got)

\* handle from the freshness test on, p being the path.
handle_cache(node, fid, image, p, fetch, trimr) ==
    IF is_fresh(p, image.last_modified)
    THEN Returned(node, fid, image, p, "none", "fresh", None, None)
    ELSE handle_write(node, fid, image, p, read(fid, image, fetch), trimr)

\* handle from the computation of the path on: file_id + None is a TypeError.
handle_path(node, fid, image, ext, fetch, trimr) ==
    IF ext = None
    THEN Returned(node, fid, image, None, "TypeError", "path", None, None)
    ELSE handle_cache(node, fid, image, path(fid, ext), fetch, trimr)

\* handle once Image(...) has returned image or raised image.exc.
handle_image(node, fid, image, fetch, trimr) ==
    IF image.exc # "none"
    THEN Returned(node, fid, image, None, image.exc, "image", None, None)
    ELSE handle_path(node, fid, image, extension(image.mimetype), fetch, trimr)

\* handle once the file id is known.
handle_id(node, fid, meta, fetch, trimr) ==
    handle_image(node, fid,
                 IF connect_to_GoogleDrive = "ExtensionError"
                 THEN NoImage("ExtensionError")
                 ELSE Image(fid, meta),
                 fetch, trimr)

\* GoogleDriveImageConverter.handle.
handle(node, meta, fetch, trimr) ==
    handle_id(node, url_to_file_id(node.uri), meta, fetch, trimr)

\* What the log shows for a call of handle.
outcome(r) ==
    IF r.exc # "none"
    THEN except_clause(r.exc)
    ELSE IF r.fresh THEN "fresh" ELSE "ok"

MetaOutcomes == {"ok", "HttpError404", "HttpError"}

FetchOutcomes == {"ok", "HttpError404", "error"}

TrimOutcomes == {"same", "cropped", "IOError"}

NoNode == [uri |-> None, candidates |-> {}]

NoCall ==
    [n |-> 0, uri |-> None, meta |-> "none", outcome |-> "none",
     trim |-> FALSE,
     exc |-> "none", fresh |-> FALSE, fid |-> None, path |-> None,
     mimetype |-> NoMime, lm |-> 0, existed |-> FALSE, pre |-> NoFile,
     ensured |-> FALSE, recorded |-> FALSE, opened |-> FALSE,
     fetched |-> 0, bytes |-> None, written |-> None, node |-> NoNode]

\* ------------------------------------------------------------------------
\* The state machine
\* ------------------------------------------------------------------------

SupportedSets ==
    { {"image/png"}, {"image/png", "image/jpeg", "application/pdf"} }

RemoteFile(f, mt) ==
    [mimeType |-> mt,
     modifiedTime |-> 0,
     trashed |-> FALSE,
     webContentLink |-> IF mt = Drawing THEN None ELSE << "l", "/" >> \o f]

\* The value of a result that has not been computed yet.
Unset == << "unset" >>

NoGuess == [mimetype |-> "unset", exportable |-> FALSE]

UrlIdle == url = None /\ file_id = Unset

MimeIdle == mimeType = NoMime /\ types = {} /\ guessed = NoGuess

cfgVars ==
    << environ, googledrive_service_account, googledrive_trim_images,
       supported_image_types, document >>

pureVars == << url, file_id, mimeType, types, guessed >>

\* The state before the first build: nothing is cached.
Start ==
    /\ clock = 0
    /\ fs = << >>
    /\ dirs = {imagedir}
    /\ nodes = document
    /\ idx = 1
    /\ builds = 1
    /\ original_image_uri = << >>
    /\ images = {}
    /\ log = [n \in DOMAIN document |-> "pending"]
    /\ raised = "none"
    /\ last = NoCall
    /\ writers = << >>
    /\ UrlIdle
    /\ MimeIdle

\* One remote file, referenced twice, and an image that is not on Drive.
Init ==
    /\ environ \in BOOLEAN
    /\ googledrive_service_account \in BOOLEAN
    /\ googledrive_trim_images \in BOOLEAN
    /\ supported_image_types \in SupportedSets
    /\ \E mt \in {"image/jpeg", Drawing} :
        /\ remote = [f \in {FileA} |-> RemoteFile(f, mt)]
        /\ document = << ImageNode(Url(FileA, mt)), ImageNode(OtherUrl),
                         ImageNode(Url(FileA, mt)) >>
    /\ Start

\* f with the value v at x, x added to its domain if needed.
Put(f, x, v) == [y \in DOMAIN f \cup {x} |-> IF y = x THEN v ELSE f[y]]

\* The effects of a call of handle that did r and logged o, the metadata
\* call having done meta.
Effect(r, o, meta) ==
    /\ fs' = IF r.opened
             THEN Put(fs, r.path,
                      [content |-> IF r.written # None THEN r.written ELSE Empty,
                       st_mtime |-> clock])
             ELSE fs
    /\ dirs' = IF r.ensured THEN dirs \cup {cachedir} ELSE dirs
    /\ original_image_uri' =
           IF r.recorded
           THEN Put(original_image_uri, r.path, nodes[idx].uri)
           ELSE original_image_uri
    /\ images' = IF r.exc = "none" /\ ~r.fresh
                 THEN images \cup {r.path} ELSE images
    /\ writers' = IF r.opened
                  THEN Put(writers, r.path,
                           (IF r.path \in DOMAIN writers
                            THEN writers[r.path] ELSE {}) \cup {r.fid})
                  ELSE writers
    /\ nodes' = [nodes EXCEPT ![idx] = r.node]
    /\ log' = [log EXCEPT ![idx] = o]
    /\ raised' = IF o = "propagate" THEN r.exc ELSE "none"
    /\ idx' = IF o = "propagate" THEN idx ELSE idx + 1
    /\ last' = [n |-> idx, uri |-> nodes[idx].uri, meta |-> meta,
                outcome |-> o,
                trim |-> googledrive_trim_images,
                exc |-> r.exc, fresh |-> r.fresh, fid |-> r.fid,
                path |-> r.path, mimetype |-> r.mimetype, lm |-> r.lm,
                existed |-> r.existed, pre |-> r.pre,
                ensured |-> r.ensured, recorded |-> r.recorded,
                opened |-> r.opened, fetched |-> r.fetched,
                bytes |-> r.bytes, written |-> r.written, node |-> r.node]

Logged(r, meta) == Effect(r, outcome(r), meta)

\* The transform calls handle on the next node, which matches.
Handle ==
    /\ raised = "none"
    /\ idx <= Len(nodes)
    /\ match(nodes[idx])
    /\ \E meta \in MetaOutcomes, fetch \in FetchOutcomes, trimr \in TrimOutcomes :
        /\ (meta # "ok" => fetch = "ok")
        /\ (fetch # "ok" => trimr = "same")
        /\ Logged(handle(nodes[idx], meta, fetch, trimr), meta)
    /\ UNCHANGED << cfgVars, pureVars, clock, remote, builds >>

\* The transform passes over the next node, which does not match.
Skip ==
    /\ raised = "none"
    /\ idx <= Len(nodes)
    /\ ~match(nodes[idx])
    /\ idx' = idx + 1
    /\ log' = [log EXCEPT ![idx] = "skipped"]
    /\ last' = NoCall
    /\ UNCHANGED << cfgVars, pureVars, clock, remote,
                    fs, dirs, nodes, builds, original_image_uri, images,
                    raised, writers >>

\* The document is built again: its nodes are read anew into a new
\* environment.
Rebuild ==
    /\ raised = "none"
    /\ idx > Len(nodes)
    /\ builds < MaxBuilds
    /\ builds' = builds + 1
    /\ nodes' = document
    /\ idx' = 1
    /\ log' = [n \in DOMAIN document |-> "pending"]
    /\ original_image_uri' = << >>
    /\ images' = {}
    /\ last' = NoCall
    /\ UNCHANGED << cfgVars, pureVars, clock, remote, fs, dirs, raised,
                    writers >>

Tick ==
    /\ clock < MaxClock
    /\ clock' = clock + 1
    /\ last' = NoCall
    /\ UNCHANGED << cfgVars, pureVars, remote, fs,
                    dirs, nodes, idx, builds, original_image_uri, images, log,
                    raised, writers >>

\* The owner of a remote file edits it.
Modify ==
    /\ \E f \in DOMAIN remote :
        /\ remote[f].modifiedTime < clock
        /\ remote' = [remote EXCEPT ![f].modifiedTime = clock]
    /\ last' = NoCall
    /\ UNCHANGED << cfgVars, pureVars, clock, fs,
                    dirs, nodes, idx, builds, original_image_uri, images, log,
                    raised, writers >>

\* The owner of a remote file moves it to the trash.
Trash ==
    /\ \E f \in DOMAIN remote :
        /\ ~remote[f].trashed
        /\ remote' = [remote EXCEPT ![f].trashed = TRUE]
    /\ last' = NoCall
    /\ UNCHANGED << cfgVars, pureVars, clock, fs,
                    dirs, nodes, idx, builds, original_image_uri, images, log,
                    raised, writers >>

Next == Handle \/ Skip \/ Rebuild \/ Tick \/ Modify \/ Trash

Spec == Init /\ [][Next]_vars

\* ------------------------------------------------------------------------
\* Several remote files in one document (no clock: paths do not depend on it)
\* ------------------------------------------------------------------------

InitPaths ==
    /\ environ = TRUE
    /\ googledrive_service_account = FALSE
    /\ googledrive_trim_images = FALSE
    /\ supported_image_types \in SupportedSets
    /\ \E ma \in {"image/jpeg", "image/png"}, mb \in {"image/jpeg", Drawing},
          mc \in {"image/png", Drawing} :
        /\ remote = (FileA :> RemoteFile(FileA, ma))
                    @@ (FileB :> RemoteFile(FileB, mb))
                    @@ (FileC :> RemoteFile(FileC, mc))
        /\ document = << ImageNode(Url(FileA, ma)), ImageNode(Url(FileB, mb)),
                         ImageNode(OtherUrl), ImageNode(Url(FileC, mc)) >>
    /\ Start

NextPaths == Handle \/ Skip \/ Rebuild

SpecPaths == InitPaths /\ [][NextPaths]_vars

\* ------------------------------------------------------------------------
\* url_to_file_id on its own
\* ------------------------------------------------------------------------

MainIdle ==
    /\ environ = FALSE
    /\ googledrive_service_account = FALSE
    /\ googledrive_trim_images = FALSE
    /\ supported_image_types = {}
    /\ remote = << >>
    /\ document = << >>
    /\ clock = 0
    /\ fs = << >>
    /\ dirs = {imagedir}
    /\ nodes = << >>
    /\ idx = 1
    /\ builds = 1
    /\ original_image_uri = << >>
    /\ images = {}
    /\ log = << >>
    /\ raised = "none"
    /\ last = NoCall
    /\ writers = << >>

DrivePrefix == DriveUrl(<< >>)

DrawingsPrefix == SubSeq(DrawingsUrl(<< >>), 1, 35)

\* Strings the classifier is tried on: the two URL shapes, and near misses of
\* them (another character where the host has a '.', no id parameter, another
\* scheme, a character before the scheme), each followed by up to MaxTail
\* characters and then, or not, by /edit.
WrongChars == {"x", "/", "\n"}

Heads ==
    {DrivePrefix, DrawingsPrefix}
    \cup {[DrivePrefix EXCEPT ![i] = c] : i \in {14, 21}, c \in WrongChars}
    \cup {[DrawingsPrefix EXCEPT ![i] = c] : i \in {13, 20}, c \in WrongChars}
    \cup {SubSeq(DrivePrefix, 1, 29), SubSeq(DrawingsPrefix, 1, 33),
          [DrivePrefix EXCEPT ![1] = "H"], << " " >> \o DrivePrefix,
          SubSeq(DrivePrefix, 1, 4) \o SubSeq(DrivePrefix, 6, 33)}

Tails == UNION {[1 .. n -> {"a", "/", "?"}] : n \in 0 .. MaxTail}

Edits == {<< >>, << "/", "e", "d", "i", "t" >>,
          << "/", "e", "d", "i", "t", "?", "a" >>}

InitUrl ==
    /\ MainIdle
    /\ MimeIdle
    /\ url \in {h \o t \o e : h \in Heads, t \in Tails, e \in Edits}
    /\ file_id = Unset

Classify ==
    /\ file_id = Unset
    /\ file_id' = url_to_file_id(url)
    /\ UNCHANGED << mainVars, url, mimeVars >>

SpecUrl == InitUrl /\ [][Classify]_vars

\* ------------------------------------------------------------------------
\* guess_mimetype on its own
\* ------------------------------------------------------------------------

\* Remote MIME types; "" is metadata without a mimeType.
MimeTypes ==
    {Drawing, "image/png", "image/jpeg", "application/pdf", "image/gif",
     "text/plain", ""}

ImageTypes == {"image/png", "image/jpeg", "application/pdf", "image/svg+xml"}

InitMime ==
    /\ MainIdle
    /\ UrlIdle
    /\ mimeType \in MimeTypes
    /\ types \in SUBSET ImageTypes
    /\ guessed = NoGuess

\* Lines 84 and 85 of Image.__init__.
Guess ==
    /\ guessed = NoGuess
    /\ guessed' = [mimetype |-> guess_mimetype(mimeType, types),
                   exportable |-> exportable(mimeType)]
    /\ UNCHANGED << mainVars, urlVars, mimeType, types >>

SpecMime == InitMime /\ [][Guess]_vars

\* ------------------------------------------------------------------------
\* Properties
\* ------------------------------------------------------------------------

\* A call of handle has just returned.
Called == last.n # 0

\* ... and it got the metadata, resolved the MIME type and computed the path.
Resolved == Called /\ last.path # None

\* Credentials are configured.
Configured == connect_to_GoogleDrive # "ExtensionError"

Failures == {"not found", "unsupported", "warning"}

\* C1: whenever a cache file exists at the target path and its modification
\* time, rounded up to a whole second, is greater than or equal to the remote
\* last_modified, handle makes no content-fetch call and the node gets the
\* local path.
C1_Idempotence ==
    (Resolved /\ last.existed /\ ceil(last.pre.st_mtime) >= last.lm)
        => (last.fetched = 0 /\ nodes[last.n].uri = last.path)

\* C2: whenever a cache file exists at the target path and its modification
\* time, rounded up, is strictly less than the remote last_modified, handle
\* fetches the content again and overwrites the file, whose content is then
\* the fetched bytes when trimming is disabled.
C2_Staleness ==
    (Resolved /\ last.existed /\ ceil(last.pre.st_mtime) < last.lm)
        => /\ last.fetched = 1
           /\ (last.bytes # None /\ ~googledrive_trim_images)
                  => fs[last.path].content = last.bytes

\* C3: with neither the environment variable nor the configuration value, the
\* ExtensionError leaves handle (the build stops), and no other exception
\* ever leaves it.
C3_ConfigurationErrorFatal ==
    /\ (Called /\ ~Configured) => raised = "ExtensionError"
    /\ raised # "none" => raised = "ExtensionError"

\* C4: with credentials configured, no failure of a reference leaves handle
\* as an exception; a reference that failed (not found, unsupported, any
\* other failure of the metadata call or the content fetch) keeps the uri and
\* the candidates it had, and the transform has gone on to the references
\* after it.
C4_RecoverableFailure ==
    Configured =>
        /\ raised = "none"
        /\ Called /\ last.exc # "none" => last.outcome \in Failures
        /\ \A n \in DOMAIN log :
               log[n] \in Failures =>
                   /\ nodes[n] = document[n]
                   /\ idx > n
                   /\ \A m \in DOMAIN log :
                          (n < m /\ m < idx) => log[m] # "pending"

\* C4, its case: the first reference failed and was left as it was, and a
\* later reference of the same build was resolved.
C4_FailureThenSuccess ==
    /\ Configured
    /\ log[1] \in Failures
    /\ nodes[1] = document[1]
    /\ log[3] = "ok"
    /\ nodes[3].uri # document[3].uri

\* The remote MIME type of f is not a drawing and not a supported type.
UnsupportedRemote(f) ==
    /\ remote[f].mimeType \notin EXPORTABLE_IMAGES
    /\ remote[f].mimeType \notin supported_image_types

\* C5: a call of handle that finds the remote file trashed, or of a
\* non-drawing type outside the supported set, fails (not found, respectively
\* UnsupportedMimeType) and changes no file and no directory and makes no
\* content-fetch call.
C5_FailsBeforeAnyChange ==
    [][ ( /\ last'.n # 0
          /\ last'.meta = "ok"
          /\ Configured
          /\ remote[last'.fid].trashed \/ UnsupportedRemote(last'.fid) )
        => /\ fs' = fs
           /\ dirs' = dirs
           /\ last'.fetched = 0
           /\ last'.exc = IF remote[last'.fid].trashed
                          THEN "IOError" ELSE "UnsupportedMimeType"
           /\ log'[last'.n] = IF remote[last'.fid].trashed
                              THEN "not found" ELSE "unsupported" ]_vars

\* C5, its case: handle found the file trashed while a cache file of an
\* earlier resolution existed.
C5_TrashedWithCache ==
    /\ Called
    /\ last.meta = "ok"
    /\ Configured
    /\ remote[last.fid].trashed
    /\ last.exc = "IOError"
    /\ \E p \in DOMAIN fs : fs[p].content # Empty

\* The form https://drive.google.com/open?id=<ID> and its <ID>.
StartsWith(s, pre) == Len(s) >= Len(pre) /\ SubSeq(s, 1, Len(pre)) = pre

Rest(s, pre) == SubSeq(s, Len(pre) + 1, Len(s))

IsId(s) == s # << >> /\ \A i \in DOMAIN s : s[i] \notin {"/", "?"}

IsDriveUrl(u) == StartsWith(u, DrivePrefix) /\ IsId(Rest(u, DrivePrefix))

\* The form https://docs.google.com/drawings/d/<ID>[/edit...]: k is the
\* length of <ID>.
DrawingsIdLengths(u) ==
    {k \in 1 .. Len(Rest(u, DrawingsPrefix)) :
        /\ IsId(SubSeq(Rest(u, DrawingsPrefix), 1, k))
        /\ \/ k = Len(Rest(u, DrawingsPrefix))
           \/ StartsWith(Rest(Rest(u, DrawingsPrefix),
                              SubSeq(Rest(u, DrawingsPrefix), 1, k)),
                         << "/", "e", "d", "i", "t" >>)}

IsDrawingsUrl(u) == StartsWith(u, DrawingsPrefix) /\ DrawingsIdLengths(u) # {}

\* C6: url_to_file_id returns the identifier of a URL of one of the two
\* forms, and None for every other string.
C6_Classifier ==
    file_id # Unset =>
        /\ IsDriveUrl(url) => file_id = Rest(url, DrivePrefix)
        /\ IsDrawingsUrl(url) =>
               \E k \in DrawingsIdLengths(url) :
                   file_id = SubSeq(Rest(url, DrawingsPrefix), 1, k)
        /\ (~IsDriveUrl(url) /\ ~IsDrawingsUrl(url)) => file_id = None

\* C7: the resolved MIME type is a member of the supported set or the
\* drawing fallback: for a drawing, PDF when PDF is supported and PNG
\* otherwise; for another type, the type itself when it is supported, and
\* UnsupportedMimeType otherwise.  exportable holds exactly for a drawing.
C7_ResolvedMimeType ==
    guessed # NoGuess =>
        /\ guessed.exportable = (mimeType = Drawing)
        /\ mimeType = Drawing =>
               guessed.mimetype = IF "application/pdf" \in types
                                  THEN "application/pdf" ELSE "image/png"
        /\ (mimeType # Drawing /\ mimeType \in types) =>
               guessed.mimetype = mimeType
        /\ (mimeType # Drawing /\ mimeType \notin types) =>
               guessed.mimetype = UnsupportedMimeType
        /\ \/ guessed.mimetype \in types
           \/ mimeType = Drawing /\ guessed.mimetype = "image/png"
           \/ guessed.mimetype = UnsupportedMimeType

\* C7, its case: a drawing resolved to the PNG fallback, PNG not being
\* among the supported types.
C7_DrawingFallback ==
    /\ mimeType = Drawing
    /\ "image/png" \notin types
    /\ guessed.mimetype = "image/png"
    /\ guessed.exportable

\* <imagedir>/googledrive/<file_id><extension of the MIME type mt>.
CachePath(f, mt) ==
    imagedir \o << "/", "g","o","o","g","l","e","d","r","i","v","e", "/" >>
    \o f \o extension(mt)

\* C8: every file of the cache is at <imagedir>/googledrive/<file_id><ext>
\* for a remote file and the extension of a MIME type, a call that writes
\* writes at the path of its file id and resolved MIME type, and no path is
\* written for two distinct file ids.
C8_CachePaths ==
    /\ \A p \in DOMAIN writers : Cardinality(writers[p]) = 1
    /\ \A p \in DOMAIN fs :
           \E f \in DOMAIN remote, mt \in ImageTypes :
               extension(mt) # None /\ p = CachePath(f, mt)
    /\ (Called /\ last.opened) =>
           /\ extension(last.mimetype) # None
           /\ last.path = CachePath(last.fid, last.mimetype)
           /\ last.path \in DOMAIN fs
           /\ last.fid \in writers[last.path]

\* C8, its case: two file ids, one a prefix of the other's file name, have
\* both been written with the same extension.
C8_TwoFilesWritten ==
    /\ CachePath(FileA, "image/jpeg") \in DOMAIN fs
    /\ CachePath(FileB, "image/jpeg") \in DOMAIN fs
    /\ writers[CachePath(FileA, "image/jpeg")] = {FileA}
    /\ writers[CachePath(FileB, "image/jpeg")] = {FileB}

\* C9: when a file exists at the path and its modification time, rounded up,
\* is less than or equal to the remote last_modified, no content is fetched,
\* the file is left as it was and the node gets the existing path; in every
\* other case the content is fetched and the file is written.
C9_FreshnessTest ==
    Resolved =>
        IF last.existed /\ ceil(last.pre.st_mtime) <= last.lm
        THEN /\ last.fetched = 0
             /\ fs[last.path] = last.pre
             /\ nodes[last.n].uri = last.path
        ELSE /\ last.fetched = 1
             /\ last.path \in DOMAIN fs
             /\ fs[last.path].st_mtime = clock

\* C10: a call whose content fetch (or trim step) failed leaves the file at
\* the path as it was, absent if it was absent, and records no original uri
\* for it; so no file of the cache is ever empty.
C10_FailedFetchKeepsCache ==
    /\ \A p \in DOMAIN fs : fs[p].content # Empty
    /\ (Called /\ last.fetched = 1 /\ last.written = None) =>
           /\ IF last.existed
              THEN fs[last.path] = last.pre
              ELSE last.path \notin DOMAIN fs
           /\ ~last.recorded

====
